---- MODULE Spec2Model ----
(***************************************************************************)
(* Model of mconfig's MConfigHandler (src/src/handler.rs) and of the two   *)
(* constructors of MConfigClient (src/src/lib.rs).                         *)
(*                                                                         *)
(* One handler watches one key of a MongoDB collection.  The model holds   *)
(* the handler's fields (value, watcher, sender), the spawned watch task,  *)
(* the callers of get_value, the broadcast receivers, and the part of the  *)
(* store the handler talks to: the record of the key, the change stream    *)
(* and whether the store can be reached.                                   *)
(***************************************************************************)
EXTENDS Integers, Sequences, FiniteSets, TLC

(* ------------------------------ bounds --------------------------------- *)
\* tasks that call get_value concurrently
NumCallers == 2
\* get_value calls over a run
MaxGets == 2
\* operations applied to the collection over a run
MaxOps == 2
\* receivers created over a run
NumSubs == 1
\* times find_one or watch() fails, or an open change stream dies
MaxFaults == 1
\* largest capacity given to get_handler_with_channel
MaxCapacity == 1
\* in the runs of the channel alone (HubSpec): receivers created, updates
\* applied, largest capacity
NumHubSubs == 2
MaxBurst == 4
HubCapacity == 3

Callers == 1..NumCallers
Subs == 1..NumSubs
HubSubs == 1..NumHubSubs

\* the watch task, as a waiter on the OnceCell's semaphore
W == 0
\* nobody holds the OnceCell's permit
Free == -1
\* the key the handler was built for, and some other key of the collection
Key == "aaa"
OtherKey == "bbb"

\* OnceCell: 0 is "not initialized"; an Arc is an index into heap
NoArc == 0
\* the collection holds no record for the key
NoRecord == 0
\* full_document: None
NoDoc == 0

VARIABLES
    \* ---- the store (MongoDB collection) ----
    record,       \* the value of the record whose key is Key, or NoRecord
    ops,          \* operations applied to the collection so far
    faults,       \* faults injected so far
    \* ---- MConfigHandler ----
    sender,       \* Option<broadcast::Sender>: TRUE is Some
    receiver_cnt, \* the capacity given to get_handler_with_channel
    value,        \* OnceCell<RwLock<Arc<V>>>: NoArc or the Arc it holds
    heap,         \* the Arc allocations: heap[a] is the V behind Arc a
    permit,       \* holder of the OnceCell's one permit: Free, W or a caller
    waitq,        \* tasks queued on the OnceCell's semaphore, oldest first
    watcher,      \* OnceCell<JoinHandle>: TRUE once set
    tasks,        \* watch tasks spawned so far
    closed,       \* the users have released every Arc<MConfigHandler>
    dropped,      \* Drop for MConfigHandler has run
    \* ---- the watch task ----
    wpc,          \* where the task is
    stream,       \* "none", "alive" or "dead": the ChangeStream of watch()
    queue,        \* events the open stream has not yet yielded
    cur,          \* the Arc made from the event being handled
    \* ---- broadcast channel ----
    published,    \* every Arc the channel accepted, in order
    subs,         \* per receiver: [on, next]: created?, next index to read
    got,          \* per receiver: what recv() returned, in order
    \* ---- callers of get_value ----
    pc,           \* per caller: where its get_value call is
    fetched,      \* per caller: the result of its fetch_value
    res,          \* per caller: what its last get_value returned
    calls,        \* get_value calls started so far
    \* ---- history, for the properties only ----
    hist

vars == << record, ops, faults, sender, receiver_cnt, value, heap,
           permit, waitq, watcher, tasks, closed, dropped, wpc, stream, queue,
           cur, published, subs, got, pc, fetched, res, calls, hist >>

storeVars == << record, ops, faults >>
hubVars == << published, subs, got >>
callVars == << pc, fetched, res, calls >>
cellVars == << value, heap, permit, waitq >>
taskVars == << wpc, stream, queue, cur >>
lifeVars == << watcher, tasks, closed, dropped >>
ctorVars == << sender, receiver_cnt >>

(* ------------------------------ the store ------------------------------ *)
\* The operation types of a change event (handler.rs:93).
OpTypes == {"insert", "update", "replace", "delete", "invalidate"}

\* ChangeStreamEvent as the handler reads it: operation type, the key of the
\* full document and the full document's value (NoDoc: no full document).
Event(op, key, doc) == [op |-> op, key |-> key, doc |-> doc]

\* (a wrong $match: the key of the full document is not compared)
PipelineAnyKey(ev) ==
    /\ ev.op = "update"
    /\ ev.doc # NoDoc

\* The $match stage of watch(): operationType is "update" and
\* fullDocument.key is the handler's key (so a full document is there).
PipelineMatch(ev) ==
    /\ ev.op = "update"
    /\ ev.doc # NoDoc
    /\ ev.key = Key

\* The store appends an event to the open change stream when the pipeline
\* lets it through; a stream that is not open sees nothing.
Deliver(ev) ==
    IF stream = "alive" /\ PipelineMatch(ev) THEN Append(queue, ev) ELSE queue

\* (a wrong fetch_value: Ok(None) and Err(e) take each other's error)
fetch_value_swapped(rec, up) ==
    IF ~up THEN [kind |-> "KeyNotExists", v |-> NoRecord]
    ELSE IF rec = NoRecord THEN [kind |-> "MongodbError", v |-> NoRecord]
    ELSE [kind |-> "Ok", v |-> rec]

\* collection.find_one(doc!{"key": key}) mapped as fetch_value maps it.
fetch_value(rec, up) ==
    IF ~up THEN [kind |-> "MongodbError", v |-> NoRecord]
    ELSE IF rec = NoRecord THEN [kind |-> "KeyNotExists", v |-> NoRecord]
    ELSE [kind |-> "Ok", v |-> rec]

\* What the store may answer to a request: it fails only while faults are
\* left to inject.
Answers == IF faults < MaxFaults THEN {TRUE, FALSE} ELSE {TRUE}

(* --------------------------- OnceCell<value> --------------------------- *)
\* (a wrong release: the permit goes back to the semaphore and no waiter
\* is told)
ReleaseToNobody(q) == Free

\* The permit goes to the oldest waiter, or back to the semaphore.
ReleaseTo(q) == IF q = << >> THEN Free ELSE Head(q)
ReleaseRest(q) == IF q = << >> THEN << >> ELSE Tail(q)

\* (a wrong semaphore: a permit is given while another task holds it)
AcquireAlways(holder) == TRUE

\* the OnceCell's semaphore has one permit: it is given only when nobody
\* holds it.
Acquire(holder) == holder = Free

\* (a wrong fast path: the cell is always taken for empty)
InitializedNever(cell) == FALSE

\* OnceCell::initialized(), the fast path of get_or_try_init
Initialized(cell) == cell # NoArc

\* (a wrong init(): a task is spawned by every call)
SpawnAlways(set) == TRUE

\* watcher.get_or_init: the closure runs only while the cell is empty.
SpawnNeeded(set) == ~set

NoResult == [kind |-> "none", arc |-> NoArc, v |-> NoRecord]

InCall(p) == pc[p] # "idle"

(* -------------------------- broadcast channel -------------------------- *)
RECURSIVE NextPow2From(_, _)
NextPow2From(p, n) == IF p >= n THEN p ELSE NextPow2From(2 * p, n)

\* broadcast::channel(receiver_cnt) keeps the last cap values, cap being
\* receiver_cnt rounded up to a power of two.
ChannelCap == NextPow2From(1, receiver_cnt)

\* the receiver slots of the run
Receivers == DOMAIN subs

\* receivers alive
RxCnt == Cardinality({s \in Receivers : subs[s].on})

\* sender.send(value): Err, and nothing kept, when there is no receiver.
Send(log, a) == IF RxCnt = 0 THEN log ELSE Append(log, a)

\* (a wrong channel: one value more than the capacity is kept)
OldestOneMore == IF Len(published) > ChannelCap + 1 THEN Len(published) - ChannelCap ELSE 1

\* the oldest index the channel still holds
Oldest == IF Len(published) > ChannelCap THEN Len(published) - ChannelCap + 1 ELSE 1

\* (a wrong subscribe(): the receiver starts at the oldest value held)
SubscribeFromStart(log) == 1

\* sender.subscribe(): the new receiver's cursor is the channel's tail.
Subscribe(log) == Len(log) + 1

\* (a wrong map: None whatever the Option holds)
OptionNever(opt) == FALSE

\* Option::map gives Some exactly when the Option is Some.
OptionMap(opt) == opt

\* (a wrong recv(): the cursor stays on the value it returned)
RecvStay(next) == IF next < Oldest THEN Oldest ELSE next

\* what recv() does to a receiver's cursor: a lagging receiver jumps to the
\* oldest value held (and is told Lagged), any other moves on by one.
RecvNext(next) == IF next < Oldest THEN Oldest ELSE next + 1
RecvGot(seen, next) == IF next < Oldest THEN seen ELSE Append(seen, published[next])

(* ------------------------------ history -------------------------------- *)
\* hist records what has happened, for the properties; no action reads it.
\*   origin[v]  the operation that wrote value v (values are numbered in the
\*              order the store applied their writes)
\*   lookups    find_one calls made so far; okLookups: those that found a record
\*   handles    every <<Arc, value behind it>> a get_value has returned
\*   written    the watch task has set the cell
\*   okDone     a get_value has returned Ok
\*   lateUpdate the record's latest change is an update made after okDone
\*   early[s]   receiver s was created before any operation on the collection
\*   asked[s]   what create_new_receiver returned for slot s: "no" (not
\*              called), "None" or "Some"
\*   sent       the Arcs handle_stream_event has passed to sender.send
\*   pre[s]     the Arcs sent before receiver s was created
\*   lagged[s]  a recv() of receiver s has returned Lagged
\*   ended      watch() has returned false: a stream it had opened was over
\*   gap        a write of the key did not enter a change stream (none was
\*              open, or the pipeline dropped it)
\*   call[p]    about the current (or last) call of caller p:
\*     uninit0  the cell was empty when the call started
\*     mates    the callers whose calls ran at the same time
\*     saw      what its find_one met: "none" (no lookup), "down", "absent", "present"
\*     absent   the key has had no record from the handler's construction
\*              to the call's end
\*     floor    the newest value a receiver had got when the call started
\*     cell     the cell right after the call returned an error
\*     newest   the newest value a get_value had returned when the call started
Stamp == Len(hist.origin) + 1

NoCall == [uninit0 |-> FALSE, mates |-> {}, saw |-> "none", absent |-> FALSE,
           floor |-> 0, cell |-> NoArc, newest |-> 0]

HistInit(rec) ==
    [ origin     |-> IF rec = NoRecord THEN << >> ELSE << [op |-> "initial", key |-> Key] >>,
      lookups    |-> 0,
      okLookups  |-> 0,
      handles    |-> {},
      written    |-> FALSE,
      okDone     |-> FALSE,
      lateUpdate |-> FALSE,
      early      |-> [s \in Subs |-> FALSE],
      asked      |-> [s \in Subs |-> "no"],
      sent       |-> {},
      lagged     |-> [s \in Subs |-> FALSE],
      ended      |-> FALSE,
      pre        |-> [s \in Subs |-> {}],
      gap        |-> FALSE,
      call       |-> [p \in Callers |-> NoCall] ]

\* the newest value any receiver has got
GotValues == UNION {{heap[got[s][i]] : i \in 1..Len(got[s])} : s \in Receivers}
MaxOf(S) == IF S = {} THEN 0 ELSE CHOOSE x \in S : \A y \in S : y <= x
MaxGot == MaxOf(GotValues)

\* the newest value any get_value has returned
MaxReturned == MaxOf({h[2] : h \in hist.handles})

\* hist after an operation on the collection that emits ev, leaves the
\* record as rec, and (for a write) adds orig to origin
HistStore(ev, rec, orig) ==
    [hist EXCEPT
       !.origin = @ \o orig,
       !.lateUpdate = IF rec = record THEN @ ELSE (ev.op = "update" /\ hist.okDone),
       !.gap = @ \/ (orig # << >> /\ ev.key = Key /\ Deliver(ev) = queue),
       !.call = [p \in Callers |->
                   IF InCall(p) /\ rec # NoRecord THEN [@[p] EXCEPT !.absent = FALSE] ELSE @[p]]]

(* ------------------------------- Init ---------------------------------- *)
\* The state after get_handler (sender: None) or get_handler_with_channel
\* (sender: Some, its first receiver dropped), with or without a record of
\* the key in the collection.
Init ==
    /\ record \in {NoRecord, 1}
    /\ ops = 0
    /\ faults = 0
    /\ \/ sender = FALSE /\ receiver_cnt = 0
       \/ sender = TRUE /\ receiver_cnt \in 1..MaxCapacity
    /\ value = NoArc
    /\ heap = << >>
    /\ permit = Free
    /\ waitq = << >>
    /\ watcher = FALSE
    /\ tasks = 0
    /\ closed = FALSE
    /\ dropped = FALSE
    /\ wpc = "none"
    /\ stream = "none"
    /\ queue = << >>
    /\ cur = NoArc
    /\ published = << >>
    /\ subs = [s \in Subs |-> [on |-> FALSE, next |-> 1]]
    /\ got = [s \in Subs |-> << >>]
    /\ pc = [p \in Callers |-> "idle"]
    /\ fetched = [p \in Callers |-> NoResult]
    /\ res = [p \in Callers |-> NoResult]
    /\ calls = 0
    /\ hist = HistInit(record)

(* --------------------------- store operations -------------------------- *)
\* insert_one / update_one / replace_one on the record of the key: the
\* record takes a fresh value, and the change event carries it.
StoreWriteUpTo(op, limit) ==
    /\ ops < limit
    /\ IF op = "insert" THEN record = NoRecord ELSE record # NoRecord
    /\ record' = Stamp
    /\ ops' = ops + 1
    /\ queue' = Deliver(Event(op, Key, Stamp))
    /\ hist' = HistStore(Event(op, Key, Stamp), Stamp, << [op |-> op, key |-> Key] >>)
    /\ UNCHANGED << faults, wpc, stream, cur >>
    /\ UNCHANGED << ctorVars, cellVars, lifeVars, hubVars, callVars >>

StoreWrite(op) == StoreWriteUpTo(op, MaxOps)

store_insert == StoreWrite("insert")
store_update == StoreWrite("update")
store_replace == StoreWrite("replace")

\* delete_one on the record of the key: the event has no full document.
store_delete ==
    /\ ops < MaxOps
    /\ record # NoRecord
    /\ record' = NoRecord
    /\ ops' = ops + 1
    /\ queue' = Deliver(Event("delete", Key, NoDoc))
    /\ hist' = HistStore(Event("delete", Key, NoDoc), NoRecord, << >>)
    /\ UNCHANGED << faults, wpc, stream, cur >>
    /\ UNCHANGED << ctorVars, cellVars, lifeVars, hubVars, callVars >>

\* the collection is dropped: an invalidate event, and the record is gone.
store_invalidate ==
    /\ ops < MaxOps
    /\ record # NoRecord
    /\ record' = NoRecord
    /\ ops' = ops + 1
    /\ queue' = Deliver(Event("invalidate", Key, NoDoc))
    /\ hist' = HistStore(Event("invalidate", Key, NoDoc), NoRecord, << >>)
    /\ UNCHANGED << faults, wpc, stream, cur >>
    /\ UNCHANGED << ctorVars, cellVars, lifeVars, hubVars, callVars >>

\* update_one on the record of another key of the same collection.
\* (taken only while a change stream is open: otherwise nothing of it
\* reaches the handler)
store_update_other ==
    /\ ops < MaxOps
    /\ stream = "alive"
    /\ ops' = ops + 1
    /\ queue' = Deliver(Event("update", OtherKey, Stamp))
    /\ hist' = HistStore(Event("update", OtherKey, Stamp), record, << [op |-> "update", key |-> OtherKey] >>)
    /\ UNCHANGED << record, faults, wpc, stream, cur >>
    /\ UNCHANGED << ctorVars, cellVars, lifeVars, hubVars, callVars >>

\* the open change stream's cursor dies (error or exhausted)
stream_dies ==
    /\ stream = "alive"
    /\ faults < MaxFaults
    /\ stream' = "dead"
    /\ faults' = faults + 1
    /\ UNCHANGED << record, ops, wpc, queue, cur, hist >>
    /\ UNCHANGED << ctorVars, cellVars, lifeVars, hubVars, callVars >>

(* ------------------------------ get_value ------------------------------ *)
\* Arc::new(v): a fresh allocation
ArcNew(h, v) == Append(h, v)

\* (a wrong write: the value is stored through the Arc the cell holds, which
\* the earlier callers of get_value hold too)
WriteCellInPlace(h, cell, a) == [value |-> cell, heap |-> [h EXCEPT ![cell] = h[a]]]

\* *lock.write().await = value: the RwLock's Arc is replaced by the new one;
\* the old allocation stays as it is for whoever still holds it.
WriteCell(h, cell, a) == [value |-> a, heap |-> h]

\* (a wrong set_value: the value init() returned is not kept)
SetValueLost(old, a) == old

\* get_or_try_init's set_value: the cell takes the value init() returned.
SetValue(old, a) == a

\* get_value, up to the OnceCell's semaphore: an initialized cell is read at
\* once; otherwise the caller takes the permit or queues for it.
\* (The callers are interchangeable tasks: a call takes the lowest idle one.)
get_value_enter(p) ==
    /\ ~closed
    /\ pc[p] = "idle"
    /\ \A q \in Callers : q < p => InCall(q)
    /\ calls < MaxGets
    /\ calls' = calls + 1
    /\ IF Initialized(value)
         THEN /\ pc' = [pc EXCEPT ![p] = "read"]
              /\ UNCHANGED << permit, waitq >>
         ELSE IF Acquire(permit)
           THEN /\ pc' = [pc EXCEPT ![p] = "init"]
                /\ permit' = p
                /\ UNCHANGED waitq
           ELSE /\ pc' = [pc EXCEPT ![p] = "wait"]
                /\ waitq' = Append(waitq, p)
                /\ UNCHANGED permit
    /\ res' = [res EXCEPT ![p] = NoResult]
    /\ hist' = [hist EXCEPT !.call = [q \in Callers |->
                   IF q = p
                     THEN [uninit0 |-> value = NoArc,
                           mates   |-> {r \in Callers : InCall(r)},
                           saw     |-> "none",
                           absent  |-> record = NoRecord /\ hist.origin = << >>,
                           floor   |-> MaxGot,
                           cell    |-> NoArc,
                           newest  |-> MaxReturned]
                     ELSE IF InCall(q)
                       THEN [@[q] EXCEPT !.mates = @ \cup {p}]
                       ELSE [@[q] EXCEPT !.mates = @ \ {p}]]]
    /\ UNCHANGED << value, heap, fetched >>
    /\ UNCHANGED << storeVars, ctorVars, lifeVars, taskVars, hubVars >>

\* a queued caller is woken: the semaphore was closed (the cell is
\* initialized) or the permit was handed to it.
get_value_woken(p) ==
    /\ pc[p] = "wait"
    /\ \/ /\ value # NoArc
          /\ pc' = [pc EXCEPT ![p] = "read"]
       \/ /\ value = NoArc
          /\ permit = p
          /\ pc' = [pc EXCEPT ![p] = "init"]
    /\ UNCHANGED << fetched, res, calls, hist >>
    /\ UNCHANGED << storeVars, ctorVars, cellVars, lifeVars, taskVars, hubVars >>

\* init(), first half: watcher.get_or_init spawns the watch task when the
\* watcher cell is empty.
init_watcher(p) ==
    /\ pc[p] = "init"
    /\ permit = p
    /\ IF SpawnNeeded(watcher)
         THEN /\ watcher' = TRUE
              /\ tasks' = tasks + 1
              /\ wpc' = "connecting"
         ELSE UNCHANGED << watcher, tasks, wpc >>
    /\ pc' = [pc EXCEPT ![p] = "fetch"]
    /\ UNCHANGED << closed, dropped, stream, queue, cur, fetched, res, calls, hist >>
    /\ UNCHANGED << storeVars, ctorVars, cellVars, hubVars >>

\* init(), second half: fetch_value's find_one answers.
init_fetch(p) ==
    /\ pc[p] = "fetch"
    /\ \E up \in Answers :
         /\ fetched' = [fetched EXCEPT ![p] = fetch_value(record, up)]
         /\ faults' = IF up THEN faults ELSE faults + 1
         /\ hist' = [hist EXCEPT
                       !.lookups = @ + 1,
                       !.okLookups = IF up /\ record # NoRecord THEN @ + 1 ELSE @,
                       !.call[p].saw = IF ~up THEN "down"
                                       ELSE IF record = NoRecord THEN "absent" ELSE "present"]
    /\ pc' = [pc EXCEPT ![p] = "set"]
    /\ UNCHANGED << record, ops, res, calls >>
    /\ UNCHANGED << ctorVars, cellVars, lifeVars, taskVars, hubVars >>

\* get_or_try_init ends: Ok sets the cell and closes the semaphore (every
\* waiter is woken); Err hands the permit on and is returned to the caller.
init_done(p) ==
    /\ pc[p] = "set"
    /\ IF fetched[p].kind = "Ok"
         THEN /\ heap' = ArcNew(heap, fetched[p].v)
              /\ value' = SetValue(value, Len(heap) + 1)
              /\ permit' = Free
              /\ waitq' = << >>
              /\ pc' = [pc EXCEPT ![p] = "read"]
              /\ UNCHANGED << res, hist >>
         ELSE /\ permit' = ReleaseTo(waitq)
              /\ waitq' = ReleaseRest(waitq)
              /\ pc' = [pc EXCEPT ![p] = "idle"]
              /\ res' = [res EXCEPT ![p] = [kind |-> fetched[p].kind, arc |-> NoArc, v |-> NoRecord]]
              /\ hist' = [hist EXCEPT !.call[p].cell = value]
              /\ UNCHANGED << value, heap >>
    /\ fetched' = [fetched EXCEPT ![p] = NoResult]
    /\ UNCHANGED calls
    /\ UNCHANGED << storeVars, ctorVars, lifeVars, taskVars, hubVars >>

\* lock.read().await; guard.clone(): the caller gets the Arc the cell holds.
get_value_read(p) ==
    /\ pc[p] = "read"
    /\ value # NoArc
    /\ res' = [res EXCEPT ![p] = [kind |-> "Ok", arc |-> value, v |-> heap[value]]]
    /\ pc' = [pc EXCEPT ![p] = "idle"]
    /\ hist' = [hist EXCEPT
                  !.handles = @ \cup {<< value, heap[value] >>},
                  !.okDone = TRUE]
    /\ UNCHANGED << fetched, calls >>
    /\ UNCHANGED << storeVars, ctorVars, cellVars, lifeVars, taskVars, hubVars >>

(* ------------------------- create_new_receiver ------------------------- *)
\* sender.clone().map(|v| v.subscribe()): a receiver that starts at the
\* channel's tail; None without a sender.
create_new_receiver(s) ==
    /\ ~closed
    /\ hist.asked[s] = "no"
    /\ \A t \in Receivers : t < s => hist.asked[t] # "no"
    /\ IF OptionMap(sender)
         THEN subs' = [subs EXCEPT ![s] = [on |-> TRUE, next |-> Subscribe(published)]]
         ELSE UNCHANGED subs
    /\ hist' = [hist EXCEPT
                  !.early[s] = sender /\ ops = 0,
                  !.asked[s] = IF OptionMap(sender) THEN "Some" ELSE "None",
                  !.pre[s] = hist.sent]
    /\ UNCHANGED << published, got >>
    /\ UNCHANGED << storeVars, ctorVars, cellVars, lifeVars, taskVars, callVars >>

\* receiver.recv().await returns: the next value, or Lagged after the
\* receiver fell behind the channel's capacity.
receiver_recv(s) ==
    /\ subs[s].on
    /\ subs[s].next <= Len(published)
    /\ got' = [got EXCEPT ![s] = RecvGot(@, subs[s].next)]
    /\ subs' = [subs EXCEPT ![s].next = RecvNext(@)]
    /\ hist' = [hist EXCEPT !.lagged[s] = @ \/ subs[s].next < Oldest]
    /\ UNCHANGED published
    /\ UNCHANGED << storeVars, ctorVars, cellVars, lifeVars, taskVars, callVars >>

(* ---------------------------- the watch task --------------------------- *)
\* (a wrong loop: watch() is called again at once whatever it returned)
AfterWatchNoSleep(is_wait) == "connecting"

\* the spawned loop: if is_wait { sleep(10 s) } before the next watch()
AfterWatch(is_wait) == IF is_wait THEN "backoff" ELSE "connecting"

\* (a wrong liveness check: the stream is taken for dead whenever the timer
\* fires)
NotAliveAlways(st) == TRUE

\* !change_stream.is_alive()
NotAlive(st) == st # "alive"

\* watch(): collection.watch().pipeline(..) answers. Ok opens the stream;
\* Err returns true, and the spawned loop sleeps 10 s before the next call.
watch_open ==
    /\ wpc = "connecting"
    /\ \E up \in Answers :
         /\ IF up
              THEN /\ stream' = "alive"
                   /\ wpc' = "streaming"
              ELSE /\ stream' = "none"
                   /\ wpc' = AfterWatch(TRUE)
         /\ faults' = IF up THEN faults ELSE faults + 1
    /\ queue' = << >>
    /\ UNCHANGED << record, ops, cur, hist >>
    /\ UNCHANGED << ctorVars, cellVars, lifeVars, hubVars, callVars >>

\* tokio::time::sleep(Duration::from_secs(10)) of the spawned loop is over.
backoff_done ==
    /\ wpc = "backoff"
    /\ wpc' = "connecting"
    /\ UNCHANGED << stream, queue, cur, hist >>
    /\ UNCHANGED << storeVars, ctorVars, cellVars, lifeVars, hubVars, callVars >>

\* select!: the 60 s sleep fires (no event was ready). A stream that is not
\* alive makes watch() return false: the loop calls watch() again at once.
watch_tick ==
    /\ wpc = "streaming"
    /\ queue = << >>
    /\ IF NotAlive(stream)
         THEN /\ wpc' = AfterWatch(FALSE)
              /\ stream' = "none"
              /\ hist' = [hist EXCEPT !.ended = TRUE]
         ELSE UNCHANGED << wpc, stream, hist >>
    /\ UNCHANGED << queue, cur >>
    /\ UNCHANGED << storeVars, ctorVars, cellVars, lifeVars, hubVars, callVars >>

\* select!: change_stream.next() yields None or Some(Err): watch() returns
\* false.
watch_stream_end ==
    /\ wpc = "streaming"
    /\ queue = << >>
    /\ stream = "dead"
    /\ wpc' = AfterWatch(FALSE)
    /\ stream' = "none"
    /\ hist' = [hist EXCEPT !.ended = TRUE]
    /\ UNCHANGED << queue, cur >>
    /\ UNCHANGED << storeVars, ctorVars, cellVars, lifeVars, hubVars, callVars >>

\* select!: change_stream.next() yields Some(Ok(event)), and
\* handle_stream_event starts: no full document returns at once, otherwise
\* the value goes into a new Arc.
watch_next ==
    /\ wpc = "streaming"
    /\ queue # << >>
    /\ queue' = Tail(queue)
    /\ IF Head(queue).doc = NoDoc
         THEN UNCHANGED << wpc, cur, heap >>
         ELSE /\ heap' = ArcNew(heap, Head(queue).doc)
              /\ cur' = Len(heap) + 1
              /\ wpc' = "send"
    /\ UNCHANGED << stream, value, permit, waitq, hist >>
    /\ UNCHANGED << storeVars, ctorVars, lifeVars, hubVars, callVars >>

\* handle_stream_event: if let Some(sender) = &self.sender { sender.send(..) }
handle_send ==
    /\ wpc = "send"
    /\ published' = IF sender THEN Send(published, cur) ELSE published
    /\ wpc' = "check"
    /\ hist' = [hist EXCEPT !.sent = IF sender THEN @ \cup {cur} ELSE @]
    /\ UNCHANGED << stream, queue, cur, subs, got >>
    /\ UNCHANGED << storeVars, ctorVars, cellVars, lifeVars, callVars >>

\* handle_stream_event: if let Some(lock) = self.value.get()
handle_check ==
    /\ wpc = "check"
    /\ wpc' = IF value # NoArc THEN "write" ELSE "get_or_init"
    /\ UNCHANGED << stream, queue, cur, hist >>
    /\ UNCHANGED << storeVars, ctorVars, cellVars, lifeVars, hubVars, callVars >>

\* handle_stream_event: *lock.write().await = value
handle_write ==
    /\ wpc = "write"
    /\ value' = WriteCell(heap, value, cur).value
    /\ heap' = WriteCell(heap, value, cur).heap
    /\ wpc' = "streaming"
    /\ cur' = NoArc
    /\ hist' = [hist EXCEPT !.written = TRUE]
    /\ UNCHANGED << permit, waitq, stream, queue >>
    /\ UNCHANGED << storeVars, ctorVars, lifeVars, hubVars, callVars >>

\* handle_stream_event: self.value.get_or_init(|| async { RwLock::new(value) })
\* An initialized cell keeps what it has; an empty one with a free permit
\* takes the event's value; otherwise the task queues for the permit.
handle_get_or_init ==
    /\ wpc = "get_or_init"
    /\ IF value # NoArc
         THEN /\ wpc' = "streaming"
              /\ cur' = NoArc
              /\ UNCHANGED << value, permit, waitq, hist >>
         ELSE IF Acquire(permit)
           THEN /\ value' = SetValue(value, cur)
                /\ wpc' = "streaming"
                /\ cur' = NoArc
                /\ hist' = [hist EXCEPT !.written = TRUE]
                /\ UNCHANGED << permit, waitq >>
           ELSE /\ waitq' = Append(waitq, W)
                /\ wpc' = "queued"
                /\ UNCHANGED << value, permit, cur, hist >>
    /\ UNCHANGED << heap, stream, queue >>
    /\ UNCHANGED << storeVars, ctorVars, lifeVars, hubVars, callVars >>

\* the queued task is woken: the semaphore was closed by an init() that
\* succeeded (the event's value is dropped), or the permit was handed to it.
handle_woken ==
    /\ wpc = "queued"
    /\ \/ /\ value # NoArc
          /\ UNCHANGED << value, permit, waitq, hist >>
       \/ /\ value = NoArc
          /\ permit = W
          /\ value' = SetValue(value, cur)
          /\ permit' = Free
          /\ waitq' = << >>
          /\ hist' = [hist EXCEPT !.written = TRUE]
    /\ wpc' = "streaming"
    /\ cur' = NoArc
    /\ UNCHANGED << heap, stream, queue >>
    /\ UNCHANGED << storeVars, ctorVars, lifeVars, hubVars, callVars >>

(* ------------------------------ lifetime ------------------------------- *)
\* the spawned future owns arc = self.clone() for as long as it exists
TaskAlive == wpc \notin {"none", "aborted"}

\* strong count of the Arc<MConfigHandler>: the users' references (taken as
\* one) and the one the watch task holds.
StrongCount == (IF closed THEN 0 ELSE 1) + (IF TaskAlive THEN 1 ELSE 0)

\* the users release every Arc<MConfigHandler> they hold (no call is running:
\* a call borrows the Arc).
users_release ==
    /\ ~closed
    /\ \A p \in Callers : pc[p] = "idle"
    /\ closed' = TRUE
    /\ UNCHANGED << watcher, tasks, dropped, hist >>
    /\ UNCHANGED << storeVars, ctorVars, cellVars, taskVars, hubVars, callVars >>

\* Drop for MConfigHandler runs when the strong count reaches zero, and
\* aborts the watch task if the watcher cell holds one.
drop ==
    /\ ~dropped
    /\ StrongCount = 0
    /\ dropped' = TRUE
    /\ IF watcher
         THEN /\ wpc' = "aborted"
              /\ stream' = "none"
              /\ queue' = << >>
              /\ cur' = NoArc
         ELSE UNCHANGED << wpc, stream, queue, cur >>
    /\ UNCHANGED << watcher, tasks, closed, hist >>
    /\ UNCHANGED << storeVars, ctorVars, cellVars, hubVars, callVars >>

(* ------------------------------- Next ---------------------------------- *)
StoreNext ==
    \/ store_insert
    \/ store_update
    \/ store_replace
    \/ store_delete
    \/ store_invalidate
    \/ store_update_other
    \/ stream_dies

WatchNext ==
    \/ watch_open
    \/ backoff_done
    \/ watch_tick
    \/ watch_stream_end
    \/ watch_next
    \/ handle_send
    \/ handle_check
    \/ handle_write
    \/ handle_get_or_init
    \/ handle_woken

CallNext ==
    \/ \E p \in Callers : get_value_enter(p)
    \/ \E p \in Callers : get_value_woken(p)
    \/ \E p \in Callers : init_watcher(p)
    \/ \E p \in Callers : init_fetch(p)
    \/ \E p \in Callers : init_done(p)
    \/ \E p \in Callers : get_value_read(p)
    \/ \E s \in Receivers : create_new_receiver(s)
    \/ \E s \in Receivers : receiver_recv(s)
    \/ users_release
    \/ drop

Next == StoreNext \/ WatchNext \/ CallNext

Spec == Init /\ [][Next]_vars

(* ------------------------- fair specification -------------------------- *)
\* what a caller inside get_value does next
CallStep(p) ==
    \/ get_value_woken(p)
    \/ init_watcher(p)
    \/ init_fetch(p)
    \/ init_done(p)
    \/ get_value_read(p)

\* The runtime keeps polling a task that can run: the watch task and every
\* call inside get_value take their next step when one stays possible.
FairSpec ==
    /\ Init
    /\ [][Next]_vars
    /\ WF_vars(WatchNext)
    /\ \A p \in Callers : WF_vars(CallStep(p))

(* --------------------------- the channel alone ------------------------- *)
\* The handler after get_handler_with_channel on a collection that holds
\* the record, one get_value that returned Ok, and the watch task's change
\* stream open: nothing has been written or published yet.
HubInit ==
    /\ record = 1
    /\ ops = 0
    /\ faults = 0
    /\ sender = TRUE
    /\ receiver_cnt \in 1..HubCapacity
    /\ heap = << 1 >>
    /\ value = 1
    /\ permit = Free
    /\ waitq = << >>
    /\ watcher = TRUE
    /\ tasks = 1
    /\ closed = FALSE
    /\ dropped = FALSE
    /\ wpc = "streaming"
    /\ stream = "alive"
    /\ queue = << >>
    /\ cur = NoArc
    /\ published = << >>
    /\ subs = [s \in HubSubs |-> [on |-> FALSE, next |-> 1]]
    /\ got = [s \in HubSubs |-> << >>]
    /\ pc = [p \in Callers |-> "idle"]
    /\ fetched = [p \in Callers |-> NoResult]
    /\ res = [p \in Callers |-> IF p = 1 THEN [kind |-> "Ok", arc |-> 1, v |-> 1] ELSE NoResult]
    /\ calls = 1
    /\ hist = [HistInit(1) EXCEPT
                  !.lookups = 1,
                  !.okLookups = 1,
                  !.handles = {<< 1, 1 >>},
                  !.okDone = TRUE,
                  !.early = [s \in HubSubs |-> FALSE],
                  !.asked = [s \in HubSubs |-> "no"],
                  !.pre = [s \in HubSubs |-> {}],
                  !.lagged = [s \in HubSubs |-> FALSE],
                  !.call[1] = [uninit0 |-> TRUE, mates |-> {}, saw |-> "present",
                               absent |-> FALSE, floor |-> 0, cell |-> NoArc, newest |-> 0]]

\* update_one on the record of the key, up to MaxBurst times
store_update_burst == StoreWriteUpTo("update", MaxBurst)

\* the watch task takes and handles the events of the open stream
HubWatch ==
    \/ watch_next
    \/ handle_send
    \/ handle_check
    \/ handle_write

HubNext ==
    \/ store_update_burst
    \/ HubWatch
    \/ \E s \in Receivers : create_new_receiver(s)
    \/ \E s \in Receivers : receiver_recv(s)

HubSpec == HubInit /\ [][HubNext]_vars

\* The runtime keeps polling the watch task; a receiver's owner may never
\* call recv().
FairHubSpec == HubInit /\ [][HubNext]_vars /\ WF_vars(HubWatch)

(* ============================ properties =============================== *)

(* ---- helpers of the properties ---- *)
\* caller p's call has returned
Done(p) == pc[p] = "idle" /\ res[p].kind # "none"

\* the calls of p and q ran at the same time, and both have returned
Together(p, q) == p # q /\ q \in hist.call[p].mates /\ Done(p) /\ Done(q)

\* what the cell holds (NoRecord while it is empty)
CellV == IF value = NoArc THEN NoRecord ELSE heap[value]

\* the change event of the operation that wrote value v
EventOf(v) == Event(hist.origin[v].op, hist.origin[v].key, v)

\* the spec's actionable predicate (spec.md, section 3)
Actionable(ev) ==
    /\ ev.key = Key
    /\ ev.op \in {"insert", "update", "replace"}
    /\ ev.doc # NoDoc

\* this step applies an operation to the collection; NewEvent is its event
\* (a delete or invalidate writes no value and carries no document)
StoreStep == ops' = ops + 1
NewEvent ==
    IF Len(hist.origin') > Len(hist.origin)
      THEN Event(hist.origin'[Len(hist.origin')].op, hist.origin'[Len(hist.origin')].key, Len(hist.origin'))
      ELSE Event("delete", Key, NoDoc)

\* the values receiver s has got, in order
GotVals(s) == [i \in 1..Len(got[s]) |-> heap[got[s][i]]]

\* the values written to the record of the key by the handler's lifetime
\* operations, in the order the store applied them
QualSeq ==
    SelectSeq([v \in 1..Len(hist.origin) |-> v],
              LAMBDA v : hist.origin[v].key = Key
                         /\ hist.origin[v].op \in {"insert", "update", "replace"})

IsPrefix(a, b) == Len(a) <= Len(b) /\ \A i \in 1..Len(a) : a[i] = b[i]

C2_Claim ==
    \A w \in 1..(MaxOps + 1) :
        [](hist.lateUpdate /\ record = w => <>(record # w \/ CellV = w))

(* ---- C3 ---- *)
\* C3 (as claimed): once the users have released every reference to a
\* handler whose watch task was started, the task is cancelled: a task that
\* is waiting on its change stream at that moment takes no further event
\* from it, so nothing is published after the close.
C3_Claim ==
    [][(closed /\ sender /\ wpc = "streaming") => wpc' # "send"]_vars

(* ---- C4 ---- *)
\* C4: a failed initialization is not cached. While the key has had no
\* record, every get_value fails, with KeyNotExists (MongodbError when the
\* store fails), and leaves the cell empty; a call that looks up returns
\* what its lookup met, so once a record is there and the store answers the
\* lookup of a later call returns Ok; a call that holds the permit finds the
\* cell empty and looks up; no error is returned without a lookup.
C4_FailureNotCached ==
    /\ \A p \in Callers : pc[p] \in {"init", "fetch", "set"} => value = NoArc /\ permit = p
    /\ \A p \in Callers : Done(p) =>
        /\ hist.call[p].absent => hist.call[p].saw \in {"absent", "down"}
        /\ hist.call[p].saw = "absent" => res[p].kind = "KeyNotExists"
        /\ hist.call[p].saw = "down" => res[p].kind = "MongodbError"
        /\ hist.call[p].saw = "present" => res[p].kind = "Ok"
        /\ hist.call[p].saw = "none" => res[p].kind = "Ok" /\ value # NoArc
        /\ res[p].kind # "Ok" => hist.call[p].cell = NoArc

\* C4 witness: the key had no record; a first get_value looked up and
\* failed, the record was inserted, and a later get_value, not running at
\* the same time, looked up again and returned Ok.
C4_Witness ==
    /\ hist.lookups = 2
    /\ hist.okLookups = 1
    /\ calls = 2
    /\ Len(hist.origin) = 1
    /\ hist.origin[1].op = "insert"
    /\ Done(1)
    /\ hist.call[1].mates = {}
    /\ hist.call[1].saw = "present"
    /\ res[1].kind = "Ok"

(* ---- C5 ---- *)
\* C5 (as claimed): a get_value that starts after a receiver has got value v
\* returns v or a newer value.
C5_Claim ==
    \A p \in Callers :
        (Done(p) /\ res[p].kind = "Ok") => res[p].v >= hist.call[p].floor

C8_Claim ==
    [][(StoreStep /\ stream = "alive" /\ Actionable(NewEvent))
          => queue' = Append(queue, NewEvent)]_vars

(* ---- C9 ---- *)
\* C9: a change event that is not an insert, update or replace, or is of
\* another key, or carries no value, leaves the cell and the channel as they
\* are and the watch loop where it is; whatever is queued, handled,
\* published or held by the cell comes from a write of the key.
C9_Ignored ==
    /\ [](/\ \A i \in 1..Len(queue) : Actionable(queue[i])
          /\ \A i \in 1..Len(published) : Actionable(EventOf(heap[published[i]]))
          /\ cur # NoArc => Actionable(EventOf(heap[cur]))
          /\ value # NoArc => hist.origin[heap[value]].key = Key)
    /\ [][(StoreStep /\ ~Actionable(NewEvent))
            => /\ queue' = queue
               /\ value' = value
               /\ heap' = heap
               /\ published' = published
               /\ wpc' = wpc]_vars

\* C9 witness: the record of another key was updated while the change
\* stream was open; the watch loop is still streaming with nothing queued,
\* the cell holds the first value and the receiver was sent nothing.
C9_Witness ==
    /\ \E v \in 1..Len(hist.origin) : hist.origin[v].key = OtherKey
    /\ wpc = "streaming"
    /\ stream = "alive"
    /\ queue = << >>
    /\ RxCnt > 0
    /\ published = << >>
    /\ CellV = 1

\* C7: a value handle returned by get_value is an immutable snapshot: after
\* any later change events, cell updates and get_value calls, the value
\* behind every handle ever returned is the value it had when returned.
C7_HandlesImmutable ==
    \A h \in hist.handles : heap[h[1]] = h[2]

\* C7 witness: a handle of an older value is still held after the watch task
\* has replaced the cell's value and a later get_value has returned the new
\* one.
C7_Witness ==
    /\ value # NoArc
    /\ \E h \in hist.handles : h[1] # value /\ h[2] # heap[value]
    /\ \E h \in hist.handles : h[1] = value

\* C10: over concurrent and repeated get_value calls, failed and retried
\* initializations included, the watch task is spawned exactly once: there
\* is never more than one, and one has been spawned before any get_value
\* returns Ok (and before the cell holds a value).
C10_WatchStartedOnce ==
    /\ tasks <= 1
    /\ watcher <=> (tasks = 1)
    /\ hist.lookups > 0 => tasks = 1
    /\ value # NoArc => tasks = 1
    /\ \A p \in Callers : res[p].kind = "Ok" => tasks = 1

\* C10 witness: an initialization failed, a later one ran a second lookup,
\* a get_value returned Ok, and still one task was spawned.
C10_Witness ==
    /\ hist.lookups >= 2
    /\ \E p \in Callers : res[p].kind = "Ok"
    /\ tasks = 1

(* ---- C11 ---- *)
\* C11: at most one point lookup (find_one) of the handler is in flight at
\* any time: at most one caller is inside init(), it holds the cell's
\* permit, and the watch task never looks up.
C11_SingleFlight ==
    /\ Cardinality({p \in Callers : pc[p] \in {"init", "fetch", "set"}}) <= 1
    /\ \A p \in Callers : pc[p] \in {"init", "fetch", "set"} => permit = p
    /\ permit = W => \A p \in Callers : pc[p] \notin {"init", "fetch", "set"}

\* C11 witness: an initialization has failed, and the caller that waited
\* behind it now has its own lookup in flight, alone.
C11_Witness ==
    \E p \in Callers :
        /\ pc[p] = "fetch"
        /\ hist.call[p].mates # {}
        /\ hist.lookups >= 1

(* ---- C12 ---- *)
\* C12: a receiver gets only values sent after create_new_receiver made it:
\* no value sent before, with or without receivers at the time, is ever
\* returned by its recv() or waits unread for it.
C12_NoReplay ==
    \A s \in Receivers :
        /\ \A i \in 1..Len(got[s]) : got[s][i] \notin hist.pre[s]
        /\ subs[s].on =>
              \A j \in 1..Len(published) :
                  (j >= subs[s].next /\ j >= Oldest) => published[j] \notin hist.pre[s]

\* C12 witness: the second receiver was created after one value had been
\* sent to nobody and another to the first receiver; it has got a later
\* value.
C12_Witness ==
    /\ 2 \in Receivers
    /\ Cardinality(hist.pre[2]) >= 2
    /\ Cardinality(hist.pre[1]) = 1
    /\ Len(published) >= 2
    /\ got[2] # << >>

(* ---- C13 ---- *)
\* C13: create_new_receiver returns None exactly for a handler built
\* without a sender (get_handler); one built by get_handler_with_channel
\* gets a live receiver from every call, whatever the state of the cell.
C13_SubscribeOption ==
    \A s \in Receivers :
        /\ hist.asked[s] = "None" => ~sender /\ ~subs[s].on
        /\ hist.asked[s] = "Some" => sender /\ subs[s].on
        /\ hist.asked[s] = "no" => ~subs[s].on

\* C13 witness: a receiver was handed out after an initialization had
\* failed and while the cell was still empty.
C13_Witness ==
    \E s \in Receivers :
        /\ hist.asked[s] = "Some"
        /\ hist.lookups >= 1
        /\ value = NoArc
        /\ \A p \in Callers : pc[p] = "idle"

(* ---- C14 ---- *)
\* C14 (as claimed): when the watch task finishes handling a change event
\* that carries value v, the cell is initialized and holds v, also when the
\* cell was empty as the handling began or an init() was in flight.
C14_Claim ==
    [][(wpc \in {"write", "get_or_init", "queued"} /\ wpc' = "streaming")
          => (value' # NoArc /\ heap'[value'] = heap[cur])]_vars

(* ---- C15 ---- *)
\* C15 (as claimed): what successive get_value calls return never goes back
\* in the order the store applied the values: a call that starts after some
\* call has returned value n returns n or a newer value.
C15_Claim ==
    \A p \in Callers :
        (Done(p) /\ res[p].kind = "Ok") => res[p].v >= hist.call[p].newest

(* ---- C16 ---- *)
\* the watch task is inside handle_stream_event
Handling == wpc \in {"send", "check", "write", "get_or_init", "queued"}

\* C16: the reconnect policy of the spawned loop. A watch() whose change
\* stream cannot be opened leads to the 10 s sleep, and only that does; the
\* sleep leads to the next watch(); a watch() whose stream was opened and
\* is over leads to the next watch() at once, never to the sleep.
C16_ReconnectPolicy ==
    [][/\ (watch_open /\ faults' # faults) => (wpc' = "backoff" /\ stream' = "none")
       /\ (watch_open /\ faults' = faults) => (wpc' = "streaming" /\ stream' = "alive")
       /\ (wpc' = "backoff" /\ wpc # "backoff") => (wpc = "connecting" /\ faults' # faults)
       /\ (wpc = "backoff" /\ wpc' # "backoff") => wpc' \in {"connecting", "aborted"}
       /\ (wpc = "streaming" /\ wpc' \notin {"streaming", "send", "aborted"})
             => (wpc' = "connecting" /\ stream # "alive" /\ stream' = "none")
       /\ Handling => wpc' \notin {"connecting", "backoff"}]_vars

\* C16 witness: opening the change stream failed, the loop slept and
\* called watch() again, and the stream is now open.
C16_Witness ==
    /\ wpc = "streaming"
    /\ stream = "alive"
    /\ faults = 1
    /\ ~hist.ended
    /\ hist.lookups = hist.okLookups

(* ---- C17 ---- *)
\* C17: the watch task has no terminal state. While streaming it goes back
\* to connecting exactly when the stream yields None or an error, or the
\* 60 s timer finds the stream not alive; a timer on an alive stream and a
\* yielded event keep it in the stream loop; and wherever the task is, it
\* is connecting or streaming again later, for ever.
C17_NoTerminalState ==
    /\ [][/\ (wpc = "streaming" /\ wpc' = "connecting") => stream # "alive"
          /\ (wpc = "streaming" /\ stream = "alive") => wpc' \in {"streaming", "send", "aborted"}
          /\ watch_next => wpc' \in {"streaming", "send"}
          /\ (Handling /\ wpc' # wpc) => (wpc' \in {"streaming", "aborted"} \/ Handling')
          /\ (wpc # "aborted" /\ wpc' = "aborted") => dropped']_vars
    /\ [](wpc = "streaming" /\ stream = "dead" /\ queue = << >> => <>(wpc # "streaming"))
    /\ []((TaskAlive /\ ~dropped) => <>(wpc \in {"connecting", "streaming"}))

\* C17 witness: a stream the task had opened was over, the task went back
\* to connecting and has opened the next one.
C17_Witness ==
    /\ hist.ended
    /\ wpc = "streaming"
    /\ stream = "alive"

(* ---- C18 ---- *)
\* C18: once the cell is initialized it stays initialized, and every
\* get_value that starts afterwards returns Ok with the Arc the cell holds
\* as it reads, without a lookup and without waiting for the permit,
\* whatever the watch task meets: a stream that cannot be opened, a stream
\* that is over, a reconnect.
C18_InitializedStays ==
    /\ [](\A p \in Callers :
            (InCall(p) /\ ~hist.call[p].uninit0) => (pc[p] = "read" /\ value # NoArc))
    /\ [](\A p \in Callers :
            (Done(p) /\ ~hist.call[p].uninit0) =>
                (res[p].kind = "Ok" /\ hist.call[p].saw = "none"))
    /\ [][/\ value # NoArc => value' # NoArc
          /\ \A p \in Callers :
                (pc[p] = "read" /\ pc'[p] = "idle") =>
                    (res'[p] = [kind |-> "Ok", arc |-> value, v |-> heap[value]]
                     /\ hist'.lookups = hist.lookups)]_vars

\* C18 witness: a get_value that started on an initialized cell has
\* returned Ok while the watch task, whose stream could not be opened or was
\* over, was sleeping or reconnecting.
C18_Witness ==
    \E p \in Callers :
        /\ Done(p)
        /\ ~hist.call[p].uninit0
        /\ res[p].kind = "Ok"
        /\ wpc \in {"backoff", "connecting"}
        /\ faults = 1
        /\ hist.lookups = hist.okLookups

(* ---- C19 ---- *)
\* the values recv() of receiver s can still return
Unread(s) ==
    IF ~subs[s].on THEN 0
    ELSE Len(published) + 1 - (IF subs[s].next < Oldest THEN Oldest ELSE subs[s].next)

\* the Arcs the channel accepted after receiver s was created
AfterSub(s) == SelectSeq(published, LAMBDA a : a \notin hist.pre[s])

\* C19 (as claimed): a receiver that does not read buffers at most
\* receiver_cnt unread values.
C19_Claim ==
    \A s \in Receivers : Unread(s) <= receiver_cnt

\* C19 (amended): sending never blocks the watch task: whether or not the
\* receivers read, every update of the record ends in the cell; a receiver
\* buffers at most the channel's capacity, receiver_cnt rounded up to a
\* power of two, and misses only the oldest values beyond it; a receiver
\* that has not fallen behind has missed nothing, whatever the others do.
C19_Amended ==
    /\ [](\A s \in Receivers :
            /\ Unread(s) <= ChannelCap
            /\ subs[s].on =>
                  /\ Len(got[s]) + Unread(s) <= Len(AfterSub(s))
                  /\ (~hist.lagged[s] /\ subs[s].next >= Oldest) =>
                        /\ Len(got[s]) + Unread(s) = Len(AfterSub(s))
                        /\ IsPrefix(got[s], AfterSub(s))
                  /\ \A i \in 1..Unread(s) :
                        published[Len(published) + 1 - i] = AfterSub(s)[Len(AfterSub(s)) + 1 - i])
    /\ \A w \in 2..(MaxBurst + 1) : [](record = w => <>(CellV >= w))

\* C19 witness: the first receiver has never read and has lost values; the
\* second has got every value sent since it was created; the cell holds the
\* last update.
C19_Witness ==
    /\ 2 \in Receivers
    /\ subs[1].on /\ got[1] = << >> /\ subs[1].next < Oldest
    /\ subs[2].on /\ Len(got[2]) >= 2 /\ got[2] = AfterSub(2) /\ ~hist.lagged[2]
    /\ ops = MaxBurst
    /\ CellV = record

(* ---- C20 ---- *)
\* C20: no deadlock between get_value, init() and the watch task: with the
\* tasks polled fairly and find_one always answering, every get_value call
\* returns, and every handle_stream_event the watch task has begun ends,
\* also when it has to wait for the cell's permit behind an init().
C20_NoDeadlock ==
    /\ \A p \in Callers : [](InCall(p) => <>(~InCall(p)))
    /\ [](Handling => <>(wpc \in {"streaming", "aborted"}))

\* C20 witness: a caller that waited on an empty cell has returned Ok
\* without a lookup of its own and without any lookup having found a
\* record: the init() it waited behind failed, and the watch task, which
\* waited for the permit too, set the cell.
C20_Witness ==
    \E p \in Callers :
        /\ Done(p)
        /\ res[p].kind = "Ok"
        /\ hist.call[p].uninit0
        /\ hist.call[p].saw = "none"
        /\ hist.okLookups = 0
        /\ hist.lookups >= 1
        /\ wpc = "streaming"

====
